---- MODULE Spec2Model ----
(***************************************************************************)
(* Model of the bindgen ParseCallbacks implementation Callback of          *)
(* mupdf-sys/build.rs: the symbol table full_names filled by item_name     *)
(* and enum_variant_name, and the documentation comment transformer        *)
(* process_comment that reads it.                                          *)
(*                                                                         *)
(* A Rust string is modelled as a sequence of one-character strings, so    *)
(* that split, trim, replace and the regular expression are computed       *)
(* character by character as the code computes them.                       *)
(***************************************************************************)
EXTENDS Integers, Sequences, FiniteSets, TLC

VARIABLES full_names, comment, output, call

vars == <<full_names, comment, output, call>>

----------------------------------------------------------------------------
(* Characters and string literals of the source *)

Lower == {"a", "b", "c", "d", "e", "f", "g", "h", "i", "j", "k", "l", "m",
          "n", "o", "p", "q", "r", "s", "t", "u", "v", "w", "x", "y", "z"}

Upper == {"A", "B", "C", "D", "E", "F", "G", "H", "I", "J", "K", "L", "M",
          "N", "O", "P", "Q", "R", "S", "T", "U", "V", "W", "X", "Y", "Z"}

\* char::is_whitespace, for the characters the comments are built from
is_whitespace(c) == c \in {" ", "\t", "\r", "\n"}

None == <<"None">>

Some(v) == <<"Some", v>>

NL == <<"\n">>

PARAM == <<"@", "p", "a", "r", "a", "m">>

BR == <<"<", "b", "r", ">">>

PARAGRAPH == <<"\n", "\n">>

ARGUMENTS == <<"#", " ", "A", "r", "g", "u", "m", "e", "n", "t", "s", "\n">>

ITEM == <<"*", " ">>

NULL == <<"N", "U", "L", "L">>

UNNAMED_AT == <<"u", "n", "n", "a", "m", "e", "d", " ", "a", "t", " ">>

COLON_SPACE == <<":", " ">>

COMMA_SPACE == <<",", " ">>

\* The grave accent (U+0060) cannot be written inside a TLA+ string: the
\* element "BQ", which is no single character, stands for it.
TICK == <<"BQ">>

----------------------------------------------------------------------------
(* The str methods the callbacks use *)

starts_at(s, i, p) ==
    /\ i + Len(p) - 1 <= Len(s)
    /\ SubSeq(s, i, i + Len(p) - 1) = p

RECURSIVE find_from(_, _, _)
\* index of the first occurrence of p in s at or after i, 0 when there is none
find_from(s, p, i) ==
    IF i + Len(p) - 1 > Len(s) THEN 0
    ELSE IF starts_at(s, i, p) THEN i
    ELSE find_from(s, p, i + 1)

find(s, p) == find_from(s, p, 1)

contains(s, p) == find(s, p) # 0

RECURSIVE split(_, _)
\* str::split: the fields between the occurrences of the separator p
split(s, p) ==
    LET k == find(s, p)
    IN  IF k = 0 THEN <<s>>
        ELSE <<SubSeq(s, 1, k - 1)>> \o split(SubSeq(s, k + Len(p), Len(s)), p)

RECURSIVE replace(_, _, _)
\* str::replace: every non-overlapping occurrence of from, left to right
replace(s, from, to) ==
    LET k == find(s, from)
    IN  IF k = 0 THEN s
        ELSE SubSeq(s, 1, k - 1) \o to
                 \o replace(SubSeq(s, k + Len(from), Len(s)), from, to)

RECURSIVE trim_start(_)
trim_start(s) ==
    IF s # <<>> /\ is_whitespace(Head(s)) THEN trim_start(Tail(s)) ELSE s

RECURSIVE trim_end(_)
trim_end(s) ==
    IF s # <<>> /\ is_whitespace(s[Len(s)])
    THEN trim_end(SubSeq(s, 1, Len(s) - 1))
    ELSE s

trim(s) == trim_end(trim_start(s))

\* str::strip_prefix
strip_prefix(s, p) ==
    IF starts_at(s, 1, p) THEN Some(SubSeq(s, Len(p) + 1, Len(s))) ELSE None

\* str::strip_suffix
strip_suffix(s, p) ==
    IF Len(p) <= Len(s) /\ SubSeq(s, Len(s) - Len(p) + 1, Len(s)) = p
    THEN Some(SubSeq(s, 1, Len(s) - Len(p)))
    ELSE None

\* str::split_once
split_once(s, p) ==
    LET k == find(s, p)
    IN  IF k = 0 THEN None
        ELSE Some(<<SubSeq(s, 1, k - 1), SubSeq(s, k + Len(p), Len(s))>>)

----------------------------------------------------------------------------
(* The regular expression fz_[a-z_*]+, case insensitive *)

types_class(c) == c \in Lower \cup Upper \cup {"_", "*"}

types_prefix_at(s, i) ==
    /\ i + 3 <= Len(s)
    /\ s[i] \in {"f", "F"}
    /\ s[i + 1] \in {"z", "Z"}
    /\ s[i + 2] = "_"
    /\ types_class(s[i + 3])

RECURSIVE types_match_end(_, _)
\* the greedy + : the last index of the run of class characters holding j
types_match_end(s, j) ==
    IF j + 1 <= Len(s) /\ types_class(s[j + 1])
    THEN types_match_end(s, j + 1)
    ELSE j

RECURSIVE types_matches_from(_, _)
\* the leftmost non-overlapping matches in s at or after i, as <<first, last>>
types_matches_from(s, i) ==
    IF i > Len(s) THEN <<>>
    ELSE IF types_prefix_at(s, i)
         THEN LET j == types_match_end(s, i + 3)
              IN  <<<<i, j>>>> \o types_matches_from(s, j + 1)
         ELSE types_matches_from(s, i + 1)

types_find_iter(s) ==
    LET ms == types_matches_from(s, 1)
    IN  [k \in 1..Len(ms) |-> SubSeq(s, ms[k][1], ms[k][2])]

----------------------------------------------------------------------------
(* process_comment: the closure given to Regex::replace_all *)

\* format!("`{}`", name)
fmt_code(name) == TICK \o name \o TICK

\* format!("[`{}`]({})", name, full_name)
fmt_link(name, full_name) ==
    <<"[">> \o TICK \o name \o TICK \o <<"]", "(">> \o full_name \o <<")">>

\* format!("[`{}`]({})s", short_name, full_name)
fmt_plural(short_name, full_name) == fmt_link(short_name, full_name) \o <<"s">>

\* faulty variant: an unknown name linked to itself
fmt_unknown_self_link(name) == fmt_link(name, name)

\* format!("[`{}`]", name)
fmt_unknown(name) == <<"[">> \o TICK \o name \o TICK \o <<"]">>

\* faulty variant: the pointer test dropped
is_pointer_never(name) == FALSE

is_pointer(name) == contains(name, <<"*">>)

get(table, name) == IF name \in DOMAIN table THEN Some(table[name]) ELSE None

RECURSIVE trim_end_s(_)
trim_end_s(s) ==
    IF s # <<>> /\ s[Len(s)] = "s" THEN trim_end_s(SubSeq(s, 1, Len(s) - 1)) ELSE s

\* faulty variant: every trailing 's' stripped (trim_end_matches) instead of one
plural_lookup_all_s(table, name) ==
    LET short_name == trim_end_s(name)
    IN  IF short_name = name THEN None
        ELSE IF get(table, short_name) = None THEN None
        ELSE Some(<<short_name, get(table, short_name)[2]>>)

plural_lookup(table, name) ==
    LET short_name == strip_suffix(name, <<"s">>)
    IN  IF short_name = None THEN None
        ELSE IF get(table, short_name[2]) = None THEN None
        ELSE Some(<<short_name[2], get(table, short_name[2])[2]>>)

types_replacement(table, name) ==
    IF is_pointer(name) THEN fmt_code(name)
    ELSE IF get(table, name) # None THEN fmt_link(name, get(table, name)[2])
    ELSE IF plural_lookup(table, name) # None
         THEN fmt_plural(plural_lookup(table, name)[2][1],
                         plural_lookup(table, name)[2][2])
    ELSE fmt_unknown(name)

RECURSIVE types_replace_from(_, _, _)
types_replace_from(table, s, i) ==
    IF i > Len(s) THEN <<>>
    ELSE IF types_prefix_at(s, i)
         THEN LET j == types_match_end(s, i + 3)
              IN  types_replacement(table, SubSeq(s, i, j))
                      \o types_replace_from(table, s, j + 1)
         ELSE <<s[i]>> \o types_replace_from(table, s, i + 1)

\* self.types.replace_all(&line, |c| ...)
types_replace_all(table, s) == types_replace_from(table, s, 1)

----------------------------------------------------------------------------
(* process_comment: the line-level steps *)

\* faulty variant: the closing bracket is not escaped
escape_no_close(line) ==
    replace(replace(replace(replace(line,
        <<"[">>, <<"\\", "[">>),
        <<"<">>, <<"\\", "<">>),
        <<">">>, <<"\\", ">">>),
        NULL, TICK \o NULL \o TICK)

escape(line) ==
    replace(replace(replace(replace(replace(line,
        <<"[">>, <<"\\", "[">>),
        <<"]">>, <<"\\", "]">>),
        <<"<">>, <<"\\", "<">>),
        <<">">>, <<"\\", ">">>),
        NULL, TICK \o NULL \o TICK)

arg_rejected(arg) ==
    \E k \in 1..Len(arg) : is_whitespace(arg[k]) \/ <<arg[k]>> = TICK

RECURSIVE args_new_line_partial(_, _, _)
\* faulty variant: the loop is left without new_line.clear()
args_new_line_partial(args, k, new_line) ==
    IF k > Len(args) THEN new_line
    ELSE IF arg_rejected(args[k]) THEN new_line
    ELSE args_new_line_partial(args, k + 1,
             (IF new_line # <<>> THEN new_line \o COMMA_SPACE ELSE new_line)
                 \o TICK \o args[k] \o TICK)

RECURSIVE args_new_line(_, _, _)
\* the for loop over first.split(", "): new_line after the loop
args_new_line(args, k, new_line) ==
    IF k > Len(args) THEN new_line
    ELSE IF arg_rejected(args[k]) THEN <<>>
    ELSE args_new_line(args, k + 1,
             (IF new_line # <<>> THEN new_line \o COMMA_SPACE ELSE new_line)
                 \o TICK \o args[k] \o TICK)

param_list(line) ==
    LET parts == split_once(line, COLON_SPACE)
    IN  IF parts = None THEN line
        ELSE LET new_line == args_new_line(split(parts[2][1], COMMA_SPACE), 1, <<>>)
             IN  IF new_line # <<>>
                 THEN new_line \o COLON_SPACE \o parts[2][2]
                 ELSE line

\* faulty variant: two newlines still give the soft break
separator_two_soft(newlines, argument) ==
    IF argument THEN NL
    ELSE IF newlines = 0 THEN <<>>
    ELSE IF newlines <= 2 THEN BR
    ELSE PARAGRAPH

\* faulty variant: the arm for one newline emits nothing
separator_one_none(newlines, argument) ==
    IF argument THEN NL
    ELSE IF newlines <= 1 THEN <<>>
    ELSE PARAGRAPH

\* faulty variant: more than two newlines widen the gap
separator_wide(newlines, argument) ==
    IF argument THEN NL
    ELSE IF newlines = 0 THEN <<>>
    ELSE IF newlines = 1 THEN BR
    ELSE IF newlines = 2 THEN PARAGRAPH
    ELSE PARAGRAPH \o NL

\* faulty variant: the argument arm taken only for a count up to one
separator_arg_by_count(newlines, argument) ==
    IF argument /\ newlines <= 1 THEN NL
    ELSE IF newlines = 0 THEN <<>>
    ELSE IF newlines = 1 THEN BR
    ELSE PARAGRAPH

\* the match on newlines
separator(newlines, argument) ==
    IF argument THEN NL
    ELSE IF newlines = 0 THEN <<>>
    ELSE IF newlines = 1 THEN BR
    ELSE PARAGRAPH

\* faulty variant: the list item marker pushed before the heading
heading_after_item(argument, arguments) ==
    IF argument
    THEN ITEM \o (IF ~arguments THEN ARGUMENTS ELSE <<>>)
    ELSE <<>>

\* the Arguments heading and the list item marker
heading(argument, arguments) ==
    IF argument
    THEN (IF ~arguments THEN ARGUMENTS ELSE <<>>) \o ITEM
    ELSE <<>>

\* faulty variant: the flag is never set
arguments_never_set(argument, arguments) == arguments

arguments_after(argument, arguments) == arguments \/ argument

is_argument(trimmed) == strip_prefix(trimmed, PARAM) # None

line_body(trimmed) ==
    IF is_argument(trimmed) THEN strip_prefix(trimmed, PARAM)[2] ELSE trimmed

\* what one content line appends after its separator and heading
render(table, trimmed) ==
    param_list(types_replace_all(table, escape(line_body(trimmed))))

\* faulty variant: the count is not raised after a content line
line_step_no_count(table, st, raw) ==
    LET line == trim(raw)
    IN  IF line = <<>>
        THEN [st EXCEPT !.newlines = @ + 1]
        ELSE [output |-> st.output
                           \o separator(st.newlines, is_argument(line))
                           \o heading(is_argument(line), st.arguments)
                           \o render(table, line),
              newlines |-> 0,
              arguments |-> arguments_after(is_argument(line), st.arguments)]

\* one iteration of the for loop; st = [output, newlines, arguments]
line_step(table, st, raw) ==
    LET line == trim(raw)
    IN  IF line = <<>>
        THEN [st EXCEPT !.newlines = @ + 1]
        ELSE [output |-> st.output
                           \o separator(st.newlines, is_argument(line))
                           \o heading(is_argument(line), st.arguments)
                           \o render(table, line),
              newlines |-> 1,
              arguments |-> arguments_after(is_argument(line), st.arguments)]

RECURSIVE lines_fold(_, _, _, _)
lines_fold(table, lines, k, st) ==
    IF k > Len(lines) THEN st
    ELSE lines_fold(table, lines, k + 1, line_step(table, st, lines[k]))

\* faulty variant: nothing is returned when the output is empty
process_comment_result_nonempty(table, c) ==
    LET st == lines_fold(table, split(c, NL), 1,
                  [output |-> <<>>, newlines |-> 0, arguments |-> FALSE])
    IN  IF st.output = <<>> THEN None ELSE Some(st.output)

\* the value process_comment returns for the comment c and the table
process_comment_result(table, c) ==
    Some(lines_fold(table, split(c, NL), 1,
             [output |-> <<>>, newlines |-> 0, arguments |-> FALSE]).output)

----------------------------------------------------------------------------
(* add_derives *)

FZ_POINT == <<"f", "z", "_", "p", "o", "i", "n", "t">>

FZ_QUAD == <<"f", "z", "_", "q", "u", "a", "d">>

\* faulty variant: the second type is missing from the list
ZEROCOPY_TYPES_one == {FZ_POINT}

ZEROCOPY_TYPES == {FZ_POINT, FZ_QUAD}

add_derives_result(name) ==
    IF name \in ZEROCOPY_TYPES
    THEN <<"zerocopy::FromBytes", "zerocopy::IntoBytes", "zerocopy::Immutable">>
    ELSE <<>>

----------------------------------------------------------------------------
(* The symbol table *)

\* faulty variant: an entry that exists is kept (entry().or_insert)
insert_keep(table, k, v) ==
    [x \in DOMAIN table \cup {k} |-> IF x \in DOMAIN table THEN table[x] ELSE v]

\* HashMap::insert: adds the key or overwrites its value
insert(table, k, v) ==
    [x \in DOMAIN table \cup {k} |-> IF x = k THEN v ELSE table[x]]

\* faulty variant: the anonymous marker is not tested
enum_variant_skipped_absent_only(enum_name) == enum_name = None

\* enum_name? returns early on None, and the anonymous marker returns early
enum_variant_skipped(enum_name) ==
    \/ enum_name = None
    \/ contains(enum_name[2], UNNAMED_AT)

\* format!("{}_{}", enum_name, original_variant_name)
variant_full_name(enum_name, original_variant_name) ==
    enum_name \o <<"_">> \o original_variant_name

----------------------------------------------------------------------------
(* The inputs the driver hands to the callbacks *)

FZ_A == <<"f", "z", "_", "a">>

FZ_AS == FZ_A \o <<"s">>

FZ_A_PTR == FZ_A \o <<"*">>

FZ_NULL == <<"f", "z", "_">> \o NULL

ENUM_E == <<"e">>

\* the name clang gives an enum without a name: (unnamed at <location>)
ENUM_ANON == <<"(">> \o UNNAMED_AT \o <<"x", ")">>

EnumNames == {None, Some(ENUM_E), Some(ENUM_ANON)}

MaxLinkPieces == 3

MaxLinePieces == 5

LinkPieces == {FZ_A, <<"s">>, <<"*">>, <<" ">>, FZ_NULL}

LinePieces == {<<"a">>, NL, PARAM, <<" ">>}

MaxEscapePieces == 4

EscapePieces == {<<"[">>, <<"]">>, <<"<">>, <<">">>, <<"a">>}

MaxVariantPieces == 2

VariantPieces == {FZ_A, FZ_NULL, <<" ">>, <<"s">>}

MaxDerivePieces == 2

MaxParamPieces == 4

ParamPieces == {<<"a">>, COLON_SPACE, COMMA_SPACE, <<" ">>, FZ_A}

RECURSIVE Texts(_, _)
\* the texts made of at most n of the pieces
Texts(pieces, n) ==
    IF n = 0 THEN {<<>>}
    ELSE LET shorter == Texts(pieces, n - 1)
         IN  shorter \cup {t \o p : t \in shorter, p \in pieces}

LinkComments == Texts(LinkPieces, MaxLinkPieces)

LineComments == Texts(LinePieces, MaxLinePieces)

EscapeComments == Texts(EscapePieces, MaxEscapePieces)

VariantComments == Texts(VariantPieces, MaxVariantPieces)

VariantNames == {FZ_A, FZ_NULL}

DeriveComments == Texts(LinkPieces, MaxDerivePieces)

DeriveTypes ==
    {FZ_POINT, FZ_QUAD, FZ_A, FZ_POINT \o <<"s">>, <<"f", "z", "_", "q", "u", "a">>,
     <<"F", "Z", "_", "Q", "U", "A", "D">>, <<>>}

ParamComments == Texts(ParamPieces, MaxParamPieces)

LinkNames == {FZ_A, FZ_AS, FZ_A_PTR, FZ_NULL}

LineNames == {FZ_A}

Variants == {FZ_A}

LinkTypes == {FZ_A}

LineTypes == {FZ_A}

----------------------------------------------------------------------------
(* The state machine: Callback::default, then the callbacks in any order *)

InitWith(comments) ==
    /\ full_names = <<>>
    /\ comment \in comments
    /\ output = None
    /\ call = [op |-> "default", args |-> <<>>, ret |-> None]

item_name(original_item_name) ==
    /\ full_names' = insert(full_names, original_item_name, original_item_name)
    /\ call' = [op |-> "item_name", args |-> <<original_item_name>>, ret |-> None]
    /\ UNCHANGED <<comment, output>>

enum_variant_name(enum_name, original_variant_name) ==
    /\ full_names' =
           IF enum_variant_skipped(enum_name) THEN full_names
           ELSE insert(full_names, original_variant_name,
                       variant_full_name(enum_name[2], original_variant_name))
    /\ call' = [op |-> "enum_variant_name",
                args |-> <<enum_name, original_variant_name>>, ret |-> None]
    /\ UNCHANGED <<comment, output>>

\* faulty variant: the names the comment mentions are entered in the table
process_comment_caching ==
    /\ output' = process_comment_result(full_names, comment)
    /\ call' = [op |-> "process_comment", args |-> <<comment>>, ret |-> output']
    /\ full_names' =
           [x \in DOMAIN full_names
                     \cup {types_find_iter(comment)[k] :
                              k \in DOMAIN types_find_iter(comment)}
               |-> IF x \in DOMAIN full_names THEN full_names[x] ELSE x]
    /\ UNCHANGED comment

process_comment ==
    /\ output' = process_comment_result(full_names, comment)
    /\ call' = [op |-> "process_comment", args |-> <<comment>>, ret |-> output']
    /\ UNCHANGED <<full_names, comment>>

add_derives(name) ==
    /\ call' = [op |-> "add_derives", args |-> <<name>>,
                ret |-> add_derives_result(name)]
    /\ UNCHANGED <<full_names, comment, output>>

InitLink == InitWith(LinkComments)

NextLink ==
    \/ \E n \in LinkNames : item_name(n)
    \/ \E e \in EnumNames, v \in Variants : enum_variant_name(e, v)
    \/ process_comment
    \/ \E t \in LinkTypes : add_derives(t)

SpecLink == InitLink /\ [][NextLink]_vars

InitLine == InitWith(LineComments)

NextLine ==
    \/ \E n \in LineNames : item_name(n)
    \/ \E e \in EnumNames, v \in Variants : enum_variant_name(e, v)
    \/ process_comment
    \/ \E t \in LineTypes : add_derives(t)

SpecLine == InitLine /\ [][NextLine]_vars

InitEscape == InitWith(EscapeComments)

SpecEscape == InitEscape /\ [][NextLine]_vars

InitVariant == InitWith(VariantComments)

NextVariant ==
    \/ \E n \in LineNames : item_name(n)
    \/ \E e \in EnumNames, v \in VariantNames : enum_variant_name(e, v)
    \/ process_comment
    \/ \E t \in LineTypes : add_derives(t)

SpecVariant == InitVariant /\ [][NextVariant]_vars

InitDerive == InitWith(DeriveComments)

NextDerive ==
    \/ \E n \in LineNames : item_name(n)
    \/ \E e \in EnumNames, v \in Variants : enum_variant_name(e, v)
    \/ process_comment
    \/ \E t \in DeriveTypes : add_derives(t)

SpecDerive == InitDerive /\ [][NextDerive]_vars

InitParam == InitWith(ParamComments)

SpecParam == InitParam /\ [][NextLine]_vars

----------------------------------------------------------------------------
(* What the claims speak of *)

Range(f) == {f[k] : k \in DOMAIN f}

Returned == call.op = "process_comment"

\* the markup the specification names: inline code, a link on inline code
InlineCode(x) == TICK \o x \o TICK

LinkedCode(x, anchor) ==
    <<"[">> \o InlineCode(x) \o <<"]", "(">> \o anchor \o <<")">>

LinkOpen == <<"]", "(">>

\* the identifiers the pattern matches in the raw text of the comment
Mentions(c) == Range(types_find_iter(c))

\* the identifiers the pattern matches in the lines as process_comment scans
\* them: trimmed, the parameter marker stripped, escaped
ScannedLines(c) ==
    {escape(line_body(trim(l))) : l \in {r \in Range(split(c, NL)) : trim(r) # <<>>}}

MatchedTokens(c) == UNION {Range(types_find_iter(l)) : l \in ScannedLines(c)}

Registered(x) == x \in DOMAIN full_names

HasSingular(x) ==
    /\ x # <<>>
    /\ x[Len(x)] = "s"
    /\ Registered(SubSeq(x, 1, Len(x) - 1))

Singular(x) == SubSeq(x, 1, Len(x) - 1)

\* C1: a registered name X without '*' that the comment mentions is rendered
\* as the link [`X`](anchor), anchor being the table's value for X at the call.
C1_RegisteredMentionLinked ==
    Returned =>
        \A x \in Mentions(comment) :
            (~contains(x, <<"*">>) /\ Registered(x))
                => contains(output[2], LinkedCode(x, full_names[x]))

\* C2 as stated: an identifier X without '*', neither X nor X less a trailing
\* 's' being registered, is rendered as inline code with no link markup around
\* it.
C2_UnknownIsPlainCode ==
    Returned =>
        \A x \in MatchedTokens(comment) :
            (~contains(x, <<"*">>) /\ ~Registered(x) /\ ~HasSingular(x))
                => /\ contains(output[2], InlineCode(x))
                   /\ ~contains(output[2], <<"[">> \o InlineCode(x))

C2_UnknownRendering ==
    Returned =>
        \A x \in MatchedTokens(comment) :
            (~contains(x, <<"*">>) /\ ~Registered(x) /\ ~HasSingular(x))
                => /\ contains(output[2], <<"[">> \o InlineCode(x) \o <<"]">>)
                   /\ ~contains(output[2], <<"[">> \o InlineCode(x) \o LinkOpen)

\* C2 amended: an identifier X without '*' that the pattern matches, neither
\* X nor X less a trailing 's' being registered, is rendered as the bracketed
\* inline code [`X`] with no link target after it; process_comment returns
\* (no error), and a later registration leaves the returned markup as it is.
C2_ForwardReferenceUnlinked ==
    /\ [](C2_UnknownRendering /\ (Returned => output[1] = "Some"))
    /\ [][full_names' # full_names => output' = output]_vars

C2_Witness ==
    /\ call.op = "item_name"
    /\ call.args[1] = FZ_A
    /\ comment = FZ_A
    /\ output = Some(<<"[">> \o InlineCode(FZ_A) \o <<"]">>)

\* C3: a matched identifier M without '*' that is not registered, ends in 's'
\* and is registered without that one 's' (anchor A) is rendered as the link
\* to A on the singular followed by a literal 's'; nothing else is tried: when
\* no matched identifier is registered, itself or less exactly one trailing
\* 's', the output holds no link at all.
C3_PluralFallback ==
    Returned =>
        /\ \A m \in MatchedTokens(comment) :
               (~contains(m, <<"*">>) /\ ~Registered(m) /\ HasSingular(m))
                   => contains(output[2],
                               LinkedCode(Singular(m), full_names[Singular(m)])
                                   \o <<"s">>)
        /\ (\A m \in MatchedTokens(comment) : ~Registered(m) /\ ~HasSingular(m))
               => ~contains(output[2], LinkOpen)

C3_Witness ==
    /\ Returned
    /\ FZ_AS \in MatchedTokens(comment)
    /\ Registered(FZ_A)
    /\ ~Registered(FZ_AS)
    /\ contains(output[2], LinkedCode(FZ_A, full_names[FZ_A]) \o <<"s">>)

\* C4: a matched token that contains '*' is rendered as inline code and never
\* as a link, whatever the table holds (the token itself, or the name without
\* the '*').
C4_PointerNeverLinks ==
    Returned =>
        \A m \in MatchedTokens(comment) :
            contains(m, <<"*">>)
                => /\ contains(output[2], InlineCode(m))
                   /\ ~contains(output[2], <<"[">> \o InlineCode(m))

C4_Witness ==
    /\ Returned
    /\ FZ_A_PTR \in MatchedTokens(comment)
    /\ Registered(FZ_A_PTR)
    /\ Registered(FZ_A)
    /\ contains(output[2], InlineCode(FZ_A_PTR))

\* the enum names for which the specification makes the registration a no-op
AbsentOrAnonymous(enum_name) ==
    \/ enum_name = None
    \/ contains(enum_name[2], <<"u", "n", "n", "a", "m", "e", "d", " ", "a", "t">>)

----------------------------------------------------------------------------
(* The claims on lines, separators and the Arguments section *)

SoftBreak == <<"<", "b", "r", ">">>

ParagraphBreak == <<"\n", "\n">>

LineBreak == <<"\n">>

ArgumentsHeading ==
    <<"#", " ", "A", "r", "g", "u", "m", "e", "n", "t", "s", "\n">>

ListItem == <<"*", " ">>

RawLines == split(comment, NL)

IsBlank(l) == trim(l) = <<>>

IsParam(l) == starts_at(trim(l), 1, <<"@", "p", "a", "r", "a", "m">>)

IsText(l) == ~IsBlank(l) /\ ~IsParam(l)

\* what the content line l contributes after its separator and list marker
Body(l) == render(full_names, trim(l))

\* lines i < j are content lines with only blank lines between them
Adjacent(i, j) ==
    /\ i < j
    /\ ~IsBlank(RawLines[i])
    /\ ~IsBlank(RawLines[j])
    /\ \A k \in (i + 1)..(j - 1) : IsBlank(RawLines[k])

TextPairs(blanks) ==
    {p \in (DOMAIN RawLines) \X (DOMAIN RawLines) :
        /\ Adjacent(p[1], p[2])
        /\ IsText(RawLines[p[1]])
        /\ IsText(RawLines[p[2]])
        /\ p[2] - p[1] - 1 \in blanks}

\* the comment is a text line, then blank lines (their number in blanks),
\* then a text line, and nothing else
TwoLines(blanks) == <<1, Len(RawLines)>> \in TextPairs(blanks)

Joined(p, sep) == Body(RawLines[p[1]]) \o sep \o Body(RawLines[p[2]])

JoinedBy(blanks, sep) ==
    /\ \A p \in TextPairs(blanks) : contains(output[2], Joined(p, sep))
    /\ TwoLines(blanks) => output[2] = Joined(<<1, Len(RawLines)>>, sep)

\* C5 as stated: one blank line between two text lines gives the soft break
\* between them.
C5_OneBlankSoftBreak == Returned => JoinedBy({1}, SoftBreak)

\* C5 amended: exactly one blank line between two non-argument content lines
\* yields a paragraph break between them, not a soft break.
C5_OneBlankParagraph == Returned => JoinedBy({1}, ParagraphBreak)

C5_Witness ==
    /\ Returned
    /\ TwoLines({1})
    /\ output[2] = <<"a", "\n", "\n", "a">>

\* C6: two consecutive non-argument content lines with no blank line between
\* them are joined by exactly one soft break and no paragraph gap.
C6_NoBlankSoftBreak == Returned => JoinedBy({0}, SoftBreak)

C6_Witness ==
    /\ Returned
    /\ TwoLines({0})
    /\ output[2] = <<"a", "<", "b", "r", ">", "a">>

\* C7: two or more blank lines between two non-argument content lines yield
\* exactly one paragraph break, whatever the length of the run.
C7_BlankRunParagraph ==
    Returned => JoinedBy(2..Len(RawLines), ParagraphBreak)

C7_Witness ==
    /\ Returned
    /\ TwoLines({2})
    /\ output[2] = <<"a", "\n", "\n", "a">>

ParamLines == {i \in DOMAIN RawLines : IsParam(RawLines[i])}

FirstParam == CHOOSE i \in ParamLines : \A k \in ParamLines : i <= k

\* C8 as stated: when the first line is an "@param" line the output begins
\* with the Arguments heading, followed by the list item of the parameter.
C8_BeginsWithHeading ==
    (Returned /\ IsParam(RawLines[1]))
        => starts_at(output[2], 1,
                     ArgumentsHeading \o ListItem \o Body(RawLines[1]))

\* C8 amended: when the first line is an "@param" line the output begins
\* with one line break, then the Arguments heading, then the list item of
\* that parameter.
C8_BeginsWithBreakAndHeading ==
    (Returned /\ IsParam(RawLines[1]))
        => starts_at(output[2], 1,
                     LineBreak \o ArgumentsHeading \o ListItem
                         \o Body(RawLines[1]))

C8_Witness ==
    /\ Returned
    /\ IsParam(RawLines[1])
    /\ Body(RawLines[1]) # <<>>
    /\ Len(RawLines) > 1

RECURSIVE CountFrom(_, _, _)
CountFrom(s, p, i) ==
    IF find_from(s, p, i) = 0 THEN 0
    ELSE 1 + CountFrom(s, p, find_from(s, p, i) + Len(p))

Count(s, p) == CountFrom(s, p, 1)

\* C9: the Arguments heading is in the output once when the comment has an
\* "@param" line and not at all otherwise; it stands right before the list
\* item of the first such line, and every "@param" line has its list item
\* marker, the later ones after a line break and with no heading.
C9_HeadingOnce ==
    Returned =>
        /\ Count(output[2], ArgumentsHeading) = IF ParamLines = {} THEN 0 ELSE 1
        /\ Count(output[2], ListItem) = Cardinality(ParamLines)
        /\ ParamLines # {} =>
               /\ find(output[2], ListItem)
                      = find(output[2], ArgumentsHeading) + Len(ArgumentsHeading)
               /\ contains(output[2],
                           ArgumentsHeading \o ListItem \o Body(RawLines[FirstParam]))
               /\ \A i \in ParamLines \ {FirstParam} :
                      contains(output[2],
                               LineBreak \o ListItem \o Body(RawLines[i]))

C9_Witness ==
    /\ Returned
    /\ Cardinality(ParamLines) = 2
    /\ Count(output[2], ArgumentsHeading) = 1
    /\ Count(output[2], ListItem) = 2

----------------------------------------------------------------------------
(* The claims on the table as a whole *)

\* the call c registers the short name x with the anchor a
Registers(c, x, a) ==
    \/ c.op = "item_name" /\ c.args[1] = x /\ a = x
    \/ /\ c.op = "enum_variant_name"
       /\ ~AbsentOrAnonymous(c.args[1])
       /\ c.args[2] = x
       /\ a = c.args[1][2] \o <<"_">> \o x

\* C11 as stated: an entry of the table is never removed and its anchor never
\* changes.
C11_AnchorNeverChanges ==
    [][\A x \in DOMAIN full_names :
           x \in DOMAIN full_names' /\ full_names'[x] = full_names[x]]_vars

\* C11 amended: an entry of the table is never removed, and its anchor is the
\* one of the latest registration of its short name: it changes only when a
\* call registers that name again with another anchor (item_name after
\* enum_variant_name or the reverse, or another enum name), which overwrites it.
C11_EntryKeptLatestWins ==
    [][/\ \A x \in DOMAIN full_names :
              /\ x \in DOMAIN full_names'
              /\ full_names'[x] # full_names[x]
                     => Registers(call', x, full_names'[x])
       /\ \A x \in LinkNames \cup Variants :
              \A a \in {x, ENUM_E \o <<"_">> \o x} :
                  Registers(call', x, a)
                      => x \in DOMAIN full_names' /\ full_names'[x] = a]_vars

C11_Witness ==
    /\ call.op = "enum_variant_name"
    /\ call.args = <<Some(ENUM_E), FZ_A>>
    /\ full_names[FZ_A] = ENUM_E \o <<"_">> \o FZ_A
    /\ comment = FZ_A
    /\ output = Some(LinkedCode(FZ_A, FZ_A))

\* C12: process_comment leaves the table as it was: no entry added, removed
\* or changed, whatever the comment and the table.
C12_ProcessCommentReadsOnly ==
    [][call'.op = "process_comment" => full_names' = full_names]_vars

C12_Witness ==
    /\ Returned
    /\ full_names # <<>>
    /\ \E m \in MatchedTokens(comment) : ~Registered(m)
    /\ \E m \in MatchedTokens(comment) : Registered(m)

\* C13: process_comment returns Some(string) for every comment and every
\* table, never None; for the empty comment the string is empty.
C13_Total ==
    Returned =>
        /\ output[1] = "Some"
        /\ call.ret = output
        /\ DOMAIN output[2] = 1..Len(output[2])
        /\ comment = <<>> => output[2] = <<>>

C13_Witness ==
    /\ Returned
    /\ comment = <<>>
    /\ full_names # <<>>
    /\ output = Some(<<>>)

----------------------------------------------------------------------------
(* The claim on escaping *)

Specials == {"[", "]", "<", ">"}

Backslash == <<"\\">>

NSpecials(s) == Cardinality({k \in DOMAIN s : s[k] \in Specials})

\* what process_comment returns when it is given its own output
SecondPass == process_comment_result(full_names, output[2])[2]

----------------------------------------------------------------------------
(* The claim on enum variants *)

VariantAnchor(e, v) == e \o <<"_">> \o v

\* C15: enum_variant_name with a present enum name E that is not anonymous
\* registers V -> E_V: right after the call the table gives E_V for V, and a
\* comment that mentions V and is transformed while that entry stands holds
\* the link [`V`](E_V).
C15_VariantRegisteredAndLinked ==
    /\ (call.op = "enum_variant_name" /\ ~AbsentOrAnonymous(call.args[1]))
           => get(full_names, call.args[2])
                  = Some(VariantAnchor(call.args[1][2], call.args[2]))
    /\ Returned =>
           \A v \in Mentions(comment) :
               (Registered(v) /\ full_names[v] = VariantAnchor(ENUM_E, v))
                   => contains(output[2], LinkedCode(v, VariantAnchor(ENUM_E, v)))

----------------------------------------------------------------------------
(* The claim on add_derives *)

\* C16: add_derives returns zerocopy::FromBytes, zerocopy::IntoBytes,
\* zerocopy::Immutable, in that order, for the type names fz_point and
\* fz_quad, and the empty list for every other type name.
C16_Derives ==
    call.op = "add_derives" =>
        call.ret =
            IF \/ call.args[1] = <<"f", "z", "_", "p", "o", "i", "n", "t">>
               \/ call.args[1] = <<"f", "z", "_", "q", "u", "a", "d">>
            THEN <<"zerocopy::FromBytes", "zerocopy::IntoBytes",
                   "zerocopy::Immutable">>
            ELSE <<>>

C16_Witness ==
    /\ call.op = "add_derives"
    /\ call.args[1] = FZ_QUAD
    /\ Len(call.ret) = 3
    /\ full_names # <<>>

----------------------------------------------------------------------------
(* The claims on the separator before each content line *)

Content == {i \in DOMAIN RawLines : ~IsBlank(RawLines[i])}

\* the content line before line j, 0 when there is none
Prev(j) ==
    IF \E i \in Content : i < j
    THEN CHOOSE i \in Content : i < j /\ \A k \in Content : k < j => k <= i
    ELSE 0

\* what the content line i puts out after its separator and the heading
Emitted(i) ==
    (IF IsParam(RawLines[i]) THEN ListItem ELSE <<>>) \o Body(RawLines[i])

HeadingOf(i) ==
    IF ParamLines # {} /\ i = FirstParam THEN ArgumentsHeading ELSE <<>>

\* C17: the list item of an "@param" line follows one line break, and neither
\* a soft break nor a paragraph break, whatever the number of blank lines
\* before it; the line after it is separated as after any content line.
C17_ArgumentLineBreak ==
    Returned =>
        /\ \A j \in ParamLines :
               IF Prev(j) = 0
               THEN starts_at(output[2], 1,
                              LineBreak \o HeadingOf(j) \o Emitted(j))
               ELSE contains(output[2],
                             Emitted(Prev(j)) \o LineBreak \o HeadingOf(j)
                                 \o Emitted(j))
        /\ \A k \in Content :
               (Prev(k) \in ParamLines /\ IsText(RawLines[k]))
                   => contains(output[2],
                               Emitted(Prev(k))
                                   \o (IF k - Prev(k) = 1 THEN SoftBreak
                                       ELSE ParagraphBreak)
                                   \o Body(RawLines[k]))

C17_Witness ==
    /\ Returned
    /\ \E j \in ParamLines : Prev(j) # 0 /\ j - Prev(j) >= 3
    /\ contains(output[2], <<"a">> \o LineBreak \o ArgumentsHeading \o ListItem)

\* the line ends counted before the content line j: the blank lines before
\* the first content line, one more after a content line
LineEnds(j) == IF Prev(j) = 0 THEN j - 1 ELSE j - Prev(j)

SeparatorOf(j) ==
    IF IsParam(RawLines[j]) THEN LineBreak
    ELSE IF LineEnds(j) = 0 THEN <<>>
    ELSE IF LineEnds(j) = 1 THEN SoftBreak
    ELSE ParagraphBreak

RECURSIVE OutputFrom(_)
OutputFrom(i) ==
    IF i > Len(RawLines) THEN <<>>
    ELSE (IF i \in Content
          THEN SeparatorOf(i) \o HeadingOf(i) \o Emitted(i)
          ELSE <<>>) \o OutputFrom(i + 1)

FoldAfter(k) ==
    lines_fold(full_names, SubSeq(RawLines, 1, k), 1,
               [output |-> <<>>, newlines |-> 0, arguments |-> FALSE])

\* C19: the output is the content lines in order, each after its separator;
\* only the first content line can be without one, and only when it is no
\* "@param" line and no blank line comes before it; once a content line is
\* out the count of line ends is at least 1, so two content lines are never
\* put together directly.
C19_OneSeparatorEach ==
    Returned =>
        /\ output[2] = OutputFrom(1)
        /\ \A j \in Content :
               SeparatorOf(j) \in {LineBreak, SoftBreak, ParagraphBreak}
                   \/ (j = 1 /\ IsText(RawLines[j]))
        /\ \A k \in 0..Len(RawLines) :
               FoldAfter(k).output # <<>> => FoldAfter(k).newlines >= 1

C19_Witness ==
    /\ Returned
    /\ Cardinality(Content) >= 3
    /\ 1 \in Content
    /\ IsText(RawLines[1])
    /\ ParamLines # {}

----------------------------------------------------------------------------
(* The claim on parameter lists *)

\* the one line of the comment after escaping and identifier substitution
Scanned == types_replace_all(full_names, escape(line_body(trim(comment))))

ColonAt == find(Scanned, <<":", " ">>)

BeforeColon == SubSeq(Scanned, 1, ColonAt - 1)

AfterColon == SubSeq(Scanned, ColonAt + 2, Len(Scanned))

ListTokens == split(BeforeColon, <<",", " ">>)

\* free of whitespace and of code-span markup
TokenOk(t) == \A k \in DOMAIN t : t[k] \notin {" ", "\t", "\r", "\n", "BQ"}

RECURSIVE CodeList(_, _)
\* the tokens from the k-th on, each as inline code, joined by ", "
CodeList(toks, k) ==
    IF k > Len(toks) THEN <<>>
    ELSE InlineCode(toks[k])
             \o (IF k < Len(toks) THEN <<",", " ">> ELSE <<>>)
             \o CodeList(toks, k + 1)

\* C18: a line that holds ": " after escaping and substitution is rewritten
\* when every ", "-separated token before the first ": " is free of
\* whitespace and code-span markup: each token as inline code, joined by
\* ", ", then ": " and the rest verbatim; when any token fails, the first or
\* a later one, the line is put out as it was, with no partial rewrite.
C18_ParameterList ==
    (Returned /\ ~IsBlank(comment) /\ ColonAt # 0) =>
        output[2] =
            IF \A k \in DOMAIN ListTokens : TokenOk(ListTokens[k])
            THEN CodeList(ListTokens, 1) \o <<":", " ">> \o AfterColon
            ELSE Scanned

C18_Witness ==
    /\ Returned
    /\ ColonAt # 0
    /\ Len(ListTokens) = 2
    /\ TokenOk(ListTokens[1])
    /\ ~TokenOk(ListTokens[2])
    /\ output[2] = Scanned

----------------------------------------------------------------------------
(* The claim on what the output depends on *)

AnchorsOf(x) == {x, VariantAnchor(ENUM_E, x)}

\* every table over the names of the driver
AllTables ==
    UNION {{t \in [D -> UNION {AnchorsOf(x) : x \in D}] :
                \A x \in D : t[x] \in AnchorsOf(x)} : D \in SUBSET LinkNames}

\* the matched identifiers and their forms without a trailing 's'
Consulted(c) ==
    MatchedTokens(c)
        \cup {Singular(m) : m \in {x \in MatchedTokens(c) : x[Len(x)] = "s"}}

Agree(t, u, keys) == \A x \in keys : get(t, x) = get(u, x)

\* C20: the result of process_comment is a function of the comment and of
\* the table entries of the matched identifiers and of their forms without a
\* trailing 's': every table that agrees with the table of the call on those
\* names gives the same string, whatever else it holds.
C20_DependsOnConsultedOnly ==
    Returned =>
        \A t \in AllTables :
            Agree(t, full_names, Consulted(comment))
                => process_comment_result(t, comment) = output

C20_Witness ==
    /\ Returned
    /\ comment = FZ_AS \o <<"s">>
    /\ Registered(FZ_A)
    /\ ~Registered(FZ_AS)
    /\ output = Some(<<"[">> \o InlineCode(FZ_AS \o <<"s">>) \o <<"]">>)

====
